---- MODULE Spec2Model ----
(***************************************************************************)
(* A model of math.quantileSeq (src/function/statistics/quantileSeq.js).  *)
(*                                                                         *)
(* One behaviour of the model is one call quantileSeq(data, probOrN,       *)
(* sorted): Init chooses the arguments, the actions are the branches of    *)
(* the dispatcher quantileSeq and the steps of the scalar calculator       *)
(* _quantileSeq, sequenced by pc.                                          *)
(*                                                                         *)
(* Numbers are exact rationals [num, den] in lowest terms with den > 0:    *)
(* the probabilities, the rank prob * (len - 1), its fractional part and   *)
(* the interpolated result are computed without floating-point rounding.   *)
(* Elements of the data are integers.  The collaborators that are not part *)
(* of quantileSeq.js (flatten, partitionSelect, compare, add, multiply,    *)
(* isInteger) are modelled by their contracts; partitionSelect is any      *)
(* reordering that satisfies its partition postcondition.                  *)
(*                                                                         *)
(* The model covers the native-number forms of probOrN (lines 81-104,      *)
(* 142-164, 184-226); the BigNumber branches (lines 106-140, 152-156,      *)
(* 228-265) repeat them with BigNumber arithmetic and are not modelled.    *)
(***************************************************************************)
EXTENDS Integers, Sequences, FiniteSets, TLC

\* ---------------------------------------------------------------- bounds
MaxLen == 3     \* largest number of elements of the flattened data
MaxVal == 2     \* data elements are drawn from 0..MaxVal
MaxDen == 4     \* largest denominator of a probability argument
MaxN == 3       \* largest count N of the count form
MaxList == 2    \* largest length of a probability list

\* ------------------------------------------------------ rational numbers
Abs(x) == IF x < 0 THEN -x ELSE x

RECURSIVE GCD(_, _)
GCD(a, b) == IF b = 0 THEN a ELSE GCD(b, a % b)

\* the number n/d (d > 0) in lowest terms
Rat(n, d) ==
    LET g == GCD(Abs(n), d)
    IN  [num |-> n \div g, den |-> d \div g]

Num(n) == [num |-> n, den |-> 1]

RLess(a, b) == a.num * b.den < b.num * a.den
RLeq(a, b) == a.num * b.den <= b.num * a.den

\* typeof x === 'number' for the values of the model: a string element of a
\* probability list is the record NotANumber
NotANumber == [num |-> 0, den |-> 0]
isNumber(x) == x.den > 0

\* mathjs isInteger on a number
isInteger(x) == x.num % x.den = 0

\* mathjs compare on the (integer) elements of the data
compare(a, b) == IF a < b THEN -1 ELSE IF a > b THEN 1 ELSE 0

\* mathjs multiply(x, w): the element x scaled by the weight w
multiply(x, w) == Rat(x.num * w.num, x.den * w.den)

\* mathjs add
add(a, b) == Rat(a.num * b.den + b.num * a.den, a.den * b.den)

\* 1 - fracPart
OneMinus(f) == Rat(f.den - f.num, f.den)

\* Math.floor of a non-negative number
Floor(x) == x.num \div x.den

\* x % 1 of a non-negative number
FracPart(x) == Rat(x.num % x.den, x.den)

\* --------------------------------------------------------- the arguments
Vals == 0..MaxVal

\* the sequences over S of length 0..n
SeqUpTo(S, n) == UNION {[1..m -> S] : m \in 0..n}

\* the collection is a nested array of two rows: the first half of the
\* elements and the rest
TwoRows(f) ==
    <<SubSeq(f, 1, Len(f) \div 2), SubSeq(f, Len(f) \div 2 + 1, Len(f))>>

DataSet == {TwoRows(f) : f \in SeqUpTo(Vals, MaxLen)}

\* the probabilities in [0, 1] with a denominator of at most MaxDen
ValidProbs == UNION {{Rat(n, d) : n \in 0..d} : d \in 1..MaxDen}

\* numbers that are not probabilities: negative, above one and fractional
NegativeNums == {Rat(-1, 2), Num(-1)}
FractionalAboveOne == {Rat(3, 2), Rat(5, 2)}
Counts == {Num(n) : n \in 2..MaxN}

NumberArgs == ValidProbs \cup NegativeNums \cup FractionalAboveOne \cup Counts

\* the elements of a probability list: probabilities, numbers outside [0, 1]
\* and a value that is not a number
ListElems ==
    {Num(0), Rat(1, 2), Rat(3, 4), Rat(-1, 2), Rat(3, 2), NotANumber}

\* probOrN is a number (form "number") or a list of elements (form "list")
ProbOrNSet ==
    {[form |-> "number", val |-> v, list |-> <<>>] : v \in NumberArgs} \cup
    {[form |-> "list", val |-> Num(0), list |-> l] :
        l \in SeqUpTo(ListElems, MaxList)}

\* ------------------------------------------------------- collaborators
\* flatten(array): the elements of the nested array, depth first and left to
\* right, in a new array
RECURSIVE flatten(_)
flatten(array) ==
    IF array = <<>> THEN <<>> ELSE Head(array) \o flatten(Tail(array))

\* the nested array with the shape of array and the elements of f
Reshape(array, f) ==
    <<SubSeq(f, 1, Len(array[1])), SubSeq(f, Len(array[1]) + 1, Len(f))>>

Occurrences(s, v) == Cardinality({j \in 1..Len(s) : s[j] = v})

\* the reorderings of s
PermutationsOf(s) ==
    {t \in [1..Len(s) -> {s[j] : j \in 1..Len(s)}] :
        \A v \in {s[j] : j \in 1..Len(s)} : Occurrences(t, v) = Occurrences(s, v)}

\* partitionSelect(s, k) reorders s in place so that the element of rank k
\* (counted from 0) is at position k, no element before it is larger and no
\* element after it is smaller; it returns that element.  The set of the
\* arrays it may leave behind:
PartitionOutcomes(s, k) ==
    {t \in PermutationsOf(s) :
        /\ \A j \in 1..k : compare(t[j], t[k + 1]) <= 0
        /\ \A j \in (k + 2)..Len(s) : compare(t[j], t[k + 1]) >= 0}

\* ---------------------------------------------------------------- state
VARIABLES
    data,       \* the caller's collection (argument data; dataArr aliases it)
    probOrN,    \* argument probOrN
    sorted,     \* argument sorted
    pc,         \* position in quantileSeq / _quantileSeq
    i,          \* loop counter of the count and list loops
    prob,       \* argument prob of the running _quantileSeq call
    probArr,    \* the array of results under construction
    flat,       \* local flat of the running _quantileSeq call
    left,       \* local left
    right,      \* local right
    result,     \* the value returned to the caller
    err         \* the message of the error thrown to the caller

vars == <<data, probOrN, sorted, pc, i, prob, probArr, flat, left, right,
          result, err>>

\* an array slot that has not been assigned
Empty == [num |-> 0, den |-> 0]

NoResult == [kind |-> "none", val |-> Empty, arr |-> <<>>]
ValueResult(v) == [kind |-> "value", val |-> v, arr |-> <<>>]
ArrayResult(a) == [kind |-> "array", val |-> Empty, arr |-> a]

ErrNonNegative == "N/prob must be non-negative"
ErrNotInteger == "N must be a positive integer"
ErrProbRange == "Probability must be between 0 and 1, inclusive"
ErrType == "Unexpected type of argument in function quantileSeq"
ErrEmpty == "Cannot calculate quantile of an empty sequence"

Init ==
    /\ data \in DataSet
    /\ probOrN \in ProbOrNSet
    /\ sorted \in BOOLEAN
    /\ pc = "call"
    /\ i = 0
    /\ prob = Num(0)
    /\ probArr = <<>>
    /\ flat = <<>>
    /\ left = 0
    /\ right = 0
    /\ result = NoResult
    /\ err = ""

Throw(msg) ==
    /\ pc' = "error"
    /\ err' = msg
    /\ UNCHANGED <<data, probOrN, sorted, i, prob, probArr, flat, left, right,
                   result>>

\* ----------------------------------------------- quantileSeq, a number
\* if (probOrN < 0) throw
ThrowNegative ==
    /\ pc = "call"
    /\ probOrN.form = "number"
    /\ RLess(probOrN.val, Num(0))
    /\ Throw(ErrNonNegative)

\* if (probOrN <= 1) return _quantileSeq(dataArr, probOrN, sorted)
CallSingle ==
    /\ pc = "call"
    /\ probOrN.form = "number"
    /\ ~RLess(probOrN.val, Num(0))
    /\ RLeq(probOrN.val, Num(1))
    /\ prob' = probOrN.val
    /\ pc' = "flatten"
    /\ UNCHANGED <<data, probOrN, sorted, i, probArr, flat, left, right,
                   result, err>>

\* ThrowNotInteger rounding the count down instead of throwing
ThrowNotIntegerRounded ==
    /\ pc = "call"
    /\ probOrN.form = "number"
    /\ RLess(Num(1), probOrN.val)
    /\ ~isInteger(probOrN.val)
    /\ probArr' = [j \in 1..Floor(probOrN.val) |-> Empty]
    /\ i' = 0
    /\ pc' = "countLoop"
    /\ UNCHANGED <<data, probOrN, sorted, prob, flat, left, right, result,
                   err>>

\* if (probOrN > 1) and !isInteger(probOrN): throw
ThrowNotInteger ==
    /\ pc = "call"
    /\ probOrN.form = "number"
    /\ RLess(Num(1), probOrN.val)
    /\ ~isInteger(probOrN.val)
    /\ Throw(ErrNotInteger)

\* probArr = new Array(probOrN)
StartCount ==
    /\ pc = "call"
    /\ probOrN.form = "number"
    /\ RLess(Num(1), probOrN.val)
    /\ isInteger(probOrN.val)
    /\ probArr' = [j \in 1..Floor(probOrN.val) |-> Empty]
    /\ i' = 0
    /\ pc' = "countLoop"
    /\ UNCHANGED <<data, probOrN, sorted, prob, flat, left, right, result,
                   err>>

\* CountStep dividing by N instead of N + 1
CountStepByN ==
    /\ pc = "countLoop"
    /\ i < Floor(probOrN.val)
    /\ i' = i + 1
    /\ prob' = Rat(i + 1, Floor(probOrN.val))
    /\ pc' = "flatten"
    /\ UNCHANGED <<data, probOrN, sorted, probArr, flat, left, right, result,
                   err>>

\* i < probOrN: call _quantileSeq(dataArr, (++i) / nPlusOne, sorted)
CountStep ==
    /\ pc = "countLoop"
    /\ i < Floor(probOrN.val)
    /\ i' = i + 1
    /\ prob' = Rat(i + 1, Floor(probOrN.val) + 1)
    /\ pc' = "flatten"
    /\ UNCHANGED <<data, probOrN, sorted, probArr, flat, left, right, result,
                   err>>

\* the loop is over: return probArr
CountReturn ==
    /\ pc = "countLoop"
    /\ ~(i < Floor(probOrN.val))
    /\ result' = ArrayResult(probArr)
    /\ pc' = "done"
    /\ UNCHANGED <<data, probOrN, sorted, i, prob, probArr, flat, left, right,
                   err>>

\* -------------------------------------------------- quantileSeq, a list
\* probArr = new Array(probOrNArr.length)
StartList ==
    /\ pc = "call"
    /\ probOrN.form = "list"
    /\ probArr' = [j \in 1..Len(probOrN.list) |-> Empty]
    /\ i' = 0
    /\ pc' = "listLoop"
    /\ UNCHANGED <<data, probOrN, sorted, prob, flat, left, right, result,
                   err>>

\* const currProb = probOrNArr[i]
currProb == probOrN.list[i + 1]

\* currProb < 0 || currProb > 1
OutOfRange(p) == RLess(p, Num(0)) \/ RLess(Num(1), p)

\* ListThrowRange validating the whole list before the first computation
ListThrowRangeUpFront ==
    /\ pc = "listLoop"
    /\ i < Len(probArr)
    /\ \E j \in 1..Len(probOrN.list) :
          isNumber(probOrN.list[j]) /\ OutOfRange(probOrN.list[j])
    /\ Throw(ErrProbRange)

\* a number outside [0, 1]: throw
ListThrowRange ==
    /\ pc = "listLoop"
    /\ i < Len(probArr)
    /\ isNumber(currProb)
    /\ OutOfRange(currProb)
    /\ Throw(ErrProbRange)

\* neither a number nor a BigNumber: throw
ListThrowType ==
    /\ pc = "listLoop"
    /\ i < Len(probArr)
    /\ ~isNumber(currProb)
    /\ Throw(ErrType)

\* ListStep passing the first probability of the list every time
ListStepFirst ==
    /\ pc = "listLoop"
    /\ i < Len(probArr)
    /\ isNumber(currProb)
    /\ ~OutOfRange(currProb)
    /\ prob' = probOrN.list[1]
    /\ pc' = "flatten"
    /\ UNCHANGED <<data, probOrN, sorted, i, probArr, flat, left, right,
                   result, err>>

\* a probability: call _quantileSeq(dataArr, currProb, sorted)
ListStep ==
    /\ pc = "listLoop"
    /\ i < Len(probArr)
    /\ isNumber(currProb)
    /\ ~OutOfRange(currProb)
    /\ prob' = currProb
    /\ pc' = "flatten"
    /\ UNCHANGED <<data, probOrN, sorted, i, probArr, flat, left, right,
                   result, err>>

\* the loop is over: return probArr
ListReturn ==
    /\ pc = "listLoop"
    /\ ~(i < Len(probArr))
    /\ result' = ArrayResult(probArr)
    /\ pc' = "done"
    /\ UNCHANGED <<data, probOrN, sorted, i, prob, probArr, flat, left, right,
                   err>>

\* ------------------------------------------------------- _quantileSeq
\* the call site _quantileSeq returns to
CallSite ==
    IF probOrN.form = "list" THEN "list"
    ELSE IF RLeq(probOrN.val, Num(1)) THEN "single"
    ELSE "count"

\* return value: the locals of _quantileSeq are dropped, the caller stores
\* the value (probArr[i] = ..., or returns it)
Return(value) ==
    /\ flat' = <<>>
    /\ left' = 0
    /\ right' = 0
    /\ CASE CallSite = "single" ->
              /\ result' = ValueResult(value)
              /\ pc' = "done"
              /\ UNCHANGED <<i, probArr>>
         [] CallSite = "count" ->
              /\ probArr' = [probArr EXCEPT ![i] = value]
              /\ pc' = "countLoop"
              /\ UNCHANGED <<i, result>>
         [] CallSite = "list" ->
              /\ probArr' = [probArr EXCEPT ![i + 1] = value]
              /\ i' = i + 1
              /\ pc' = "listLoop"
              /\ UNCHANGED result
    /\ UNCHANGED <<probOrN, sorted, prob, err>>

\* ThrowEmpty without the length test: flat[index] of the empty array is
\* undefined, which validate rejects with a type error
ThrowEmptyUnchecked ==
    /\ pc = "flatten"
    /\ Len(flatten(data)) = 0
    /\ flat' = flatten(data)
    /\ pc' = "error"
    /\ err' = ErrType
    /\ UNCHANGED <<data, probOrN, sorted, i, prob, probArr, left, right,
                   result>>

\* const flat = flatten(array); len === 0: throw
ThrowEmpty ==
    /\ pc = "flatten"
    /\ Len(flatten(data)) = 0
    /\ flat' = flatten(data)
    /\ pc' = "error"
    /\ err' = ErrEmpty
    /\ UNCHANGED <<data, probOrN, sorted, i, prob, probArr, left, right,
                   result>>

\* const flat = flatten(array); len > 0
FlattenData ==
    /\ pc = "flatten"
    /\ Len(flatten(data)) # 0
    /\ flat' = flatten(data)
    /\ pc' = "rank"
    /\ UNCHANGED <<data, probOrN, sorted, i, prob, probArr, left, right,
                   result, err>>

\* index computed as prob * len
indexByLen == multiply(prob, Num(Len(flat)))

\* const index = prob * (len - 1)
index == multiply(prob, Num(Len(flat) - 1))
fracPart == FracPart(index)
integerPart == Floor(index)

\* the ranks _quantileSeq passes to partitionSelect, counted from 0:
\* partitionSelect(flat, index) or partitionSelect(flat, integerPart + 1)
SelectRanks ==
    IF sorted THEN {}
    ELSE IF fracPart = Num(0) THEN {integerPart}
    ELSE {integerPart + 1}

\* the positions of flat _quantileSeq reads, counted from 0: flat[index];
\* flat[integerPart] and flat[integerPart + 1]; flat[integerPart] and flat[i]
\* for i < integerPart
FlatReads ==
    IF fracPart = Num(0)
    THEN (IF sorted THEN {integerPart} ELSE {})
    ELSE IF sorted THEN {integerPart, integerPart + 1}
    ELSE {integerPart} \cup 0..(integerPart - 1)

\* SelectTarget when partitionSelect is handed the caller's array
SelectTargetArray == "array"

\* the array partitionSelect is applied to
SelectTarget == "flat"

\* partitionSelect(flat, k): the arrays after the call
Selected(k, t) ==
    /\ t \in PartitionOutcomes(flat, k)
    /\ IF SelectTarget = "flat"
       THEN flat' = t /\ data' = data
       ELSE flat' = flat /\ data' = Reshape(data, t)

\* fracPart === 0 and sorted: value = flat[index]
ExactIndex ==
    /\ pc = "rank"
    /\ fracPart = Num(0)
    /\ sorted
    /\ Return(Num(flat[integerPart + 1]))
    /\ UNCHANGED data

\* ExactSelect without the selection: the element at position index of the
\* unordered array
ExactSelectUnselected ==
    /\ pc = "rank"
    /\ fracPart = Num(0)
    /\ ~sorted
    /\ Return(Num(flat[integerPart + 1]))
    /\ UNCHANGED data

\* fracPart === 0 and not sorted: value = partitionSelect(flat, index)
ExactSelect ==
    /\ pc = "rank"
    /\ fracPart = Num(0)
    /\ ~sorted
    /\ \E t \in PartitionOutcomes(flat, integerPart) :
          /\ data' = (IF SelectTarget = "flat" THEN data ELSE Reshape(data, t))
          /\ Return(Num(t[integerPart + 1]))

\* InterpIndex reading right at integerPart + 2
InterpIndexShifted ==
    /\ pc = "rank"
    /\ fracPart # Num(0)
    /\ sorted
    /\ left' = flat[integerPart + 1]
    /\ right' = flat[IF integerPart + 3 <= Len(flat) THEN integerPart + 3
                     ELSE integerPart + 1]
    /\ pc' = "interp"
    /\ UNCHANGED <<data, probOrN, sorted, i, prob, probArr, flat, result, err>>

\* fracPart # 0 and sorted: left = flat[integerPart], right = flat[integerPart + 1]
InterpIndex ==
    /\ pc = "rank"
    /\ fracPart # Num(0)
    /\ sorted
    /\ left' = flat[integerPart + 1]
    /\ right' = flat[integerPart + 2]
    /\ pc' = "interp"
    /\ UNCHANGED <<data, probOrN, sorted, i, prob, probArr, flat, result, err>>

\* fracPart # 0 and not sorted: right = partitionSelect(flat, integerPart + 1)
InterpSelect ==
    /\ pc = "rank"
    /\ fracPart # Num(0)
    /\ ~sorted
    /\ \E t \in PartitionOutcomes(flat, integerPart + 1) :
          /\ Selected(integerPart + 1, t)
          /\ right' = t[integerPart + 2]
    /\ pc' = "scan"
    /\ UNCHANGED <<probOrN, sorted, i, prob, probArr, left, result, err>>

\* left = flat[k]; for (i = 0; i < k; ++i) if (compare(flat[i], left) > 0) left = flat[i]
\* ScanFrom(f, k, j, l): the loop from i = j with left = l
RECURSIVE ScanFrom(_, _, _, _)
ScanFrom(f, k, j, l) ==
    IF j < k
    THEN ScanFrom(f, k, j + 1, IF compare(f[j + 1], l) > 0 THEN f[j + 1] ELSE l)
    ELSE l

\* ScanLeftOf without the loop: the element partitionSelect left at k
ScanLeftOfUnscanned(f, k) == f[k + 1]

ScanLeftOf(f, k) == ScanFrom(f, k, 0, f[k + 1])

ScanLeft ==
    /\ pc = "scan"
    /\ left' = ScanLeftOf(flat, integerPart)
    /\ pc' = "interp"
    /\ UNCHANGED <<data, probOrN, sorted, i, prob, probArr, flat, right,
                   result, err>>

\* Interpolated with the two weights exchanged
InterpolatedSwapped(l, r, f) ==
    add(multiply(Num(l), f), multiply(Num(r), OneMinus(f)))

\* Q(prob) = (1-f)*A[floor(index)] + f*A[floor(index)+1]
Interpolated(l, r, f) ==
    add(multiply(Num(l), OneMinus(f)), multiply(Num(r), f))

Interpolate ==
    /\ pc = "interp"
    /\ Return(Interpolated(left, right, fracPart))
    /\ UNCHANGED data

Next ==
    \/ ThrowNegative
    \/ CallSingle
    \/ ThrowNotInteger
    \/ StartCount
    \/ CountStep
    \/ CountReturn
    \/ StartList
    \/ ListThrowRange
    \/ ListThrowType
    \/ ListStep
    \/ ListReturn
    \/ ThrowEmpty
    \/ FlattenData
    \/ ExactIndex
    \/ ExactSelect
    \/ InterpIndex
    \/ InterpSelect
    \/ ScanLeft
    \/ Interpolate

Spec == Init /\ [][Next]_vars

\* ------------------------------------------------------- ground truth
IsAscending(s) == \A j \in 1..(Len(s) - 1) : s[j] <= s[j + 1]

\* the full ascending sort of s
SortAsc(s) == CHOOSE t \in PermutationsOf(s) : IsAscending(t)

\* the k-th smallest element of s, k counted from 0
KthSmallest(s, k) == SortAsc(s)[k + 1]

Min(s) == CHOOSE v \in {s[j] : j \in 1..Len(s)} : \A j \in 1..Len(s) : v <= s[j]
Max(s) == CHOOSE v \in {s[j] : j \in 1..Len(s)} : \A j \in 1..Len(s) : v >= s[j]

\* the rank p * (len - 1) of probability p in f as numerator over p.den
RankNum(f, p) == p.num * (Len(f) - 1)

\* the quantile of order p read off the array a: a[k] at an integer rank k,
\* else a[k] and a[k + 1] weighted by the fractional part of the rank
QuantileOf(a, p) ==
    LET k == RankNum(a, p) \div p.den
        r == RankNum(a, p) % p.den
    IN  IF r = 0 THEN Num(a[k + 1])
        ELSE Rat(a[k + 1] * (p.den - r) + a[k + 2] * r, p.den)

\* the value of quantileSeq(f, p, srt) for one probability p
RefQuantile(f, p, srt) == QuantileOf(IF srt THEN f ELSE SortAsc(f), p)

SingleDone == pc = "done" /\ CallSite = "single"

\* a call with a single probability returns RefQuantile
SingleCallValue ==
    SingleDone => result = ValueResult(RefQuantile(flatten(data), prob, sorted))

\* ------------------------------------------------------------- claims

\* C1: with sorted = false and a probability p whose rank p * (len - 1) is an
\* integer k, quantileSeq returns the k-th smallest element of the data as
\* given by a full ascending sort, whatever the order of the data; p = 0
\* returns the minimum and p = 1 the maximum.
C1_ExactRankIsKthSmallest ==
    (SingleDone /\ ~sorted /\ RankNum(flatten(data), prob) % prob.den = 0) =>
        /\ result.kind = "value"
        /\ result.val =
             Num(KthSmallest(flatten(data),
                             RankNum(flatten(data), prob) \div prob.den))
        /\ prob = Num(0) => result.val = Num(Min(flatten(data)))
        /\ prob = Num(1) => result.val = Num(Max(flatten(data)))

\* an exact interior rank was selected from data that are not in order
C1_Witness ==
    /\ SingleDone
    /\ ~sorted
    /\ prob = Rat(1, 2)
    /\ Len(flatten(data)) = 3
    /\ ~IsAscending(flatten(data))
    /\ result.val = Num(KthSmallest(flatten(data), 1))
    /\ result.val # Num(flatten(data)[2])

\* C2: with sorted = false and a fractional rank k + f, after the selection of
\* rank k + 1 and the scan of positions 0..k, left is the k-th smallest and
\* right the (k+1)-th smallest element, and the call returns
\* left * (1 - f) + right * f.
C2_InterpolatesOrderStatistics ==
    LET f == flatten(data)
        n == RankNum(f, prob)
        d == prob.den
        k == n \div d
        r == n % d
    IN  /\ (pc = "interp" /\ ~sorted) =>
              /\ left = KthSmallest(f, k)
              /\ right = KthSmallest(f, k + 1)
        /\ (SingleDone /\ ~sorted /\ r # 0) =>
              /\ result.kind = "value"
              /\ result.val.num * d =
                   (KthSmallest(f, k) * (d - r) + KthSmallest(f, k + 1) * r)
                     * result.val.den

\* the scan found a larger element than the one partitionSelect left at k
C2_Witness ==
    /\ pc = "interp"
    /\ ~sorted
    /\ integerPart >= 1
    /\ flat[integerPart + 1] # left
    /\ left = KthSmallest(flatten(data), integerPart)
    /\ left # right

\* the count form: probOrN is an integer-valued number N >= lo
CountOf(lo) ==
    /\ probOrN.form = "number"
    /\ isInteger(probOrN.val)
    /\ RLeq(Num(lo), probOrN.val)

\* the result is the array of the N quantiles of order i / (N + 1)
CountResult ==
    LET N == Floor(probOrN.val)
    IN  /\ result.kind = "array"
        /\ Len(result.arr) = N
        /\ \A j \in 1..N :
              result.arr[j] = RefQuantile(flatten(data), Rat(j, N + 1), sorted)

\* C3 as stated: for every integer-valued number N >= 1 and non-empty data,
\* quantileSeq(S, N) returns N values, the i-th equal to
\* quantileSeq(S, i / (N + 1)).
C3_CountFromOne ==
    (CountOf(1) /\ flatten(data) # <<>>) =>
        /\ pc # "error"
        /\ pc = "done" => CountResult

\* C3 amended: the same for every integer-valued number N >= 2; N = 1 is the
\* probability 1.
C3_CountFromTwo ==
    /\ (CountOf(2) /\ flatten(data) # <<>>) =>
          /\ pc # "error"
          /\ pc = "done" => CountResult
    /\ SingleCallValue

\* a count of three over unsorted data returned three different quantiles
C3_Witness ==
    /\ pc = "done"
    /\ CountOf(3)
    /\ ~sorted
    /\ ~IsAscending(flatten(data))
    /\ Len(result.arr) = 3
    /\ RLess(result.arr[1], result.arr[2])
    /\ RLess(result.arr[2], result.arr[3])

\* a probability in [0, 1]
IsProbability(p) == isNumber(p) /\ ~OutOfRange(p)

\* a valid probability specification whose list, if any, has at least lo
\* elements
ValidSpec(lo) ==
    IF probOrN.form = "number"
    THEN IsProbability(probOrN.val) \/ CountOf(1)
    ELSE /\ Len(probOrN.list) >= lo
         /\ \A j \in 1..Len(probOrN.list) : IsProbability(probOrN.list[j])

FailsEmpty ==
    /\ pc # "done"
    /\ result = NoResult
    /\ pc = "error" => err = ErrEmpty

\* C4 as stated: when the data flatten to zero elements and the specification
\* is valid (a probability, a count or a list of probabilities), the call
\* fails with the empty-input error and returns no result.
C4_EmptyFailsAnyList ==
    (flatten(data) = <<>> /\ ValidSpec(0)) => FailsEmpty

\* C4 amended: the same, for a list of at least one probability; with the
\* empty list the call returns the empty array.
C4_EmptyFails ==
    /\ (flatten(data) = <<>> /\ ValidSpec(1)) =>
          /\ FailsEmpty
          /\ pc \in {"call", "countLoop", "listLoop", "flatten", "error"}
    /\ (flatten(data) = <<>> /\ probOrN.form = "list" /\ probOrN.list = <<>>
          /\ pc = "done") => result = ArrayResult(<<>>)

\* the list form failed on empty data
C4_Witness ==
    /\ pc = "error"
    /\ err = ErrEmpty
    /\ flatten(data) = <<>>
    /\ probOrN.form = "list"
    /\ Len(probOrN.list) = 2
    /\ ValidSpec(1)

\* C5: for non-empty data and a list of probabilities, the call returns a
\* sequence of the same length whose i-th entry is quantileSeq(S, pi), in the
\* order given and whatever the other probabilities are.
C5_ListEquivalence ==
    /\ (probOrN.form = "list" /\ ValidSpec(0) /\ flatten(data) # <<>>) =>
          /\ pc # "error"
          /\ pc = "done" =>
                /\ result.kind = "array"
                /\ Len(result.arr) = Len(probOrN.list)
                /\ \A j \in 1..Len(probOrN.list) :
                      result.arr[j] =
                        RefQuantile(flatten(data), probOrN.list[j], sorted)
    /\ SingleCallValue

\* a list given in descending order returned its quantiles in that order
C5_Witness ==
    /\ pc = "done"
    /\ probOrN.form = "list"
    /\ Len(probOrN.list) = 2
    /\ RLess(probOrN.list[2], probOrN.list[1])
    /\ ~sorted
    /\ ~IsAscending(flatten(data))
    /\ RLess(result.arr[2], result.arr[1])

\* the values the unsorted path of _quantileSeq may return for the array f
\* and the probability p, over every outcome of partitionSelect
UnsortedValues(f, p) ==
    LET idx == multiply(p, Num(Len(f) - 1))
        k == Floor(idx)
        fr == FracPart(idx)
    IN  IF fr = Num(0)
        THEN {Num(t[k + 1]) : t \in PartitionOutcomes(f, k)}
        ELSE {Interpolated(ScanLeftOf(t, k), t[k + 2], fr) :
                 t \in PartitionOutcomes(f, k + 1)}

\* C6: for every probability, quantileSeq with sorted = true on data in
\* ascending order returns the value quantileSeq with sorted = false returns
\* on any permutation of the data.
C6_SortedEqualsUnsorted ==
    /\ (SingleDone /\ sorted /\ IsAscending(flatten(data))) =>
          \A perm \in PermutationsOf(flatten(data)) :
              UnsortedValues(perm, prob) = {result.val}
    /\ (SingleDone /\ ~sorted) =>
          result.val \in UnsortedValues(flatten(data), prob)

\* a sorted call interpolated between two different elements
C6_Witness ==
    /\ SingleDone
    /\ sorted
    /\ IsAscending(flatten(data))
    /\ Len(flatten(data)) = 3
    /\ flatten(data)[1] # flatten(data)[3]
    /\ prob = Rat(3, 4)
    /\ result.val.den # 1

NonEmptyData == flatten(data) # <<>>

FailsWith(msg) ==
    /\ pc # "done"
    /\ result = NoResult
    /\ pc = "error" => err = msg

\* the number form of C8: a negative number fails with the non-negative
\* error, a non-integer above one with the positive-integer error
C8_NumberForm ==
    /\ (NonEmptyData /\ probOrN.form = "number"
          /\ RLess(probOrN.val, Num(0))) =>
          /\ FailsWith(ErrNonNegative)
          /\ pc \in {"call", "error"}
    /\ (NonEmptyData /\ probOrN.form = "number"
          /\ RLess(Num(1), probOrN.val) /\ ~isInteger(probOrN.val)) =>
          /\ FailsWith(ErrNotInteger)
          /\ pc \in {"call", "error"}

\* the list has a number outside [0, 1]
HasOutOfRange ==
    \E j \in 1..Len(probOrN.list) :
        isNumber(probOrN.list[j]) /\ OutOfRange(probOrN.list[j])

\* no element before the first number outside [0, 1] is of another kind
NumbersUpToOutOfRange ==
    \E j \in 1..Len(probOrN.list) :
        /\ isNumber(probOrN.list[j]) /\ OutOfRange(probOrN.list[j])
        /\ \A h \in 1..(j - 1) : isNumber(probOrN.list[h])

\* C8 as stated: for non-empty data an invalid specification yields no
\* result: a negative number fails with the non-negative error, a non-integer
\* above one with the positive-integer error, and a list with any element
\* outside [0, 1] with the probability-range error.
C8_InvalidSpecFails ==
    /\ C8_NumberForm
    /\ (NonEmptyData /\ probOrN.form = "list" /\ HasOutOfRange) =>
          FailsWith(ErrProbRange)

\* C8 amended: the list fails with the probability-range error when no
\* element of an unrecognized kind precedes its first element outside [0, 1];
\* when one does, the call fails with the type error.
C8_InvalidSpecFailsFirst ==
    /\ C8_NumberForm
    /\ (NonEmptyData /\ probOrN.form = "list" /\ NumbersUpToOutOfRange) =>
          FailsWith(ErrProbRange)
    /\ (NonEmptyData /\ probOrN.form = "list" /\ HasOutOfRange
          /\ ~NumbersUpToOutOfRange) =>
          FailsWith(ErrType)

\* the second element of a list was rejected after the first was computed
C8_Witness ==
    /\ pc = "error"
    /\ err = ErrProbRange
    /\ NonEmptyData
    /\ probOrN.form = "list"
    /\ i = 1
    /\ probOrN.list[2] = Rat(3, 2)

\* C9: a call with sorted = false, in any form and whether it returns or
\* fails, leaves the caller's collection as it was: no step of the call
\* changes data; partitionSelect reorders the private flat only.
C9_DataUnchanged == [][data' = data]_vars

\* partitionSelect has reordered flat, and data are as before
C9_Witness ==
    /\ pc = "scan"
    /\ ~sorted
    /\ flat # flatten(data)
    /\ probOrN.form = "list"

\* an element of the list is neither a probability in [0, 1] nor a number
HasInvalid ==
    \E j \in 1..Len(probOrN.list) : ~IsProbability(probOrN.list[j])

\* control is inside _quantileSeq
InCalculator == pc \in {"flatten", "rank", "scan", "interp"}

InCalculatorBody == pc \in {"rank", "scan", "interp"}

\* C11: in every call of _quantileSeq with len >= 1 and 0 <= prob <= 1, every
\* rank passed to partitionSelect (index, or integerPart + 1) and every
\* position of flat that is read (flat[index], flat[integerPart],
\* flat[integerPart + 1], the scan over 0..integerPart - 1) lies in
\* 0..len - 1, for sorted = true and sorted = false.
C11_RanksAndReadsInRange ==
    (InCalculatorBody /\ Len(flat) >= 1 /\ IsProbability(prob)) =>
        /\ \A k \in SelectRanks : 0 <= k /\ k <= Len(flat) - 1
        /\ \A j \in FlatReads : 0 <= j /\ j <= Len(flat) - 1

\* partitionSelect was called with the last rank, len - 1, and the scan reads
\* the positions before integerPart
C11_Witness ==
    /\ pc = "scan"
    /\ ~sorted
    /\ Len(flat) >= 3
    /\ SelectRanks = {Len(flat) - 1}
    /\ FlatReads = 0..(Len(flat) - 2)
    /\ right = flat[Len(flat)]

====
